---- MODULE Spec2Model ----
(***************************************************************************)
(* Model of contest_template/cpp/tester.cpp: the JudgeInterface class      *)
(* (query counter, query limit, line I/O, process-terminating verdicts)   *)
(* and the number-guessing driving loop of main().                         *)
(*                                                                         *)
(* Text is modelled as sequences of one-character strings, so that         *)
(* std::stoi is computed character by character.  The messages written to  *)
(* the streams are modelled as (romanised) string constants.               *)
(***************************************************************************)
EXTENDS Integers, Sequences, FiniteSets, TLC

\* ------------------------------------------------------------------ bounds

\* Number of lines the solution-under-test writes before closing its output.
MaxLines == 3

\* Largest limit a set_max_queries call is given in the model.
MaxLimit == 3

\* ------------------------------------------------------- program constants

\* JudgeInterface() : max_queries(100)
DefaultMaxQueries == 100

\* int n = 42;
n == 42

\* Range of int, the result type of std::stoi.
INT_MAX == 2147483647

INT_MIN == -INT_MAX - 1

\* The messages of the program.
MsgStart == "kazuate game wo kaishi shimasu. 1 kara 100 no suuji wo atete kudasai."

MsgCorrect == "seikai desu!"

MsgBigger == "motto ookii desu"

MsgSmaller == "motto chiisai desu"

MsgQueryLimit == "query seigen chouka"

MsgInvalid == "fusei na nyuuryoku desu"

WrongAnswerPrefix == "Wrong Answer: "

\* ------------------------------------------------------------ input domain

\* Lines the solution-under-test may send (without the line terminator).
Lines ==
    { <<"4", "2">>,
      <<"5", "0">>,
      <<"7", "0">>,
      <<"6", "0">>,
      <<"1", "0">>,
      <<"-", "5">>,
      <<"a", "b", "c">>,
      << >>,
      <<"4", "2", "x">>,
      <<"5", "0", "x">>,
      <<" ", "4", "2">>,
      <<"x", "4", "2">>,
      <<"9", "9", "9", "9", "9", "9", "9", "9", "9", "9", "9">>,
      <<"2", "1", "4", "7", "4", "8", "3", "6", "4", "8">>,
      <<"-">> }

\* Arguments given to set_max_queries (an unchecked int).
Limits == (-1) .. MaxLimit

\* ------------------------------------------------------------------- state

VARIABLES
    query_count,    \* JudgeInterface::query_count
    max_queries,    \* JudgeInterface::max_queries
    out,            \* what has been written to cout, line by line
    err,            \* what has been written to cerr, line by line
    exit_status,    \* the statuses passed to exit(): << >> while running
    pc,             \* position of main()
    line,           \* main's local  string input
    guess,          \* main's local  int guess
    consumed,       \* number of lines taken from cin
    eof,            \* cin has hit end of file
    received,       \* history: the strings returned by input()
    emitted,        \* history: the messages main passed to output()
    input_calls,    \* history: number of calls of input()
    configured,     \* history: set_max_queries has been called
    reconfigured,   \* history: set_max_queries has been called after an input()
    ended_by        \* history: the terminating calls made

vars == << query_count, max_queries, out, err, exit_status, pc, line, guess,
           consumed, eof, received, emitted, input_calls, configured,
           reconfigured, ended_by >>

\* ------------------------------------------------------------- std::stoi

IsSpace(c) == c \in {" ", "\t", "\n", "\r"}

IsDigit(c) == c \in {"0", "1", "2", "3", "4", "5", "6", "7", "8", "9"}

DigitVal(c) ==
    CASE c = "0" -> 0 [] c = "1" -> 1 [] c = "2" -> 2 [] c = "3" -> 3
      [] c = "4" -> 4 [] c = "5" -> 5 [] c = "6" -> 6 [] c = "7" -> 7
      [] c = "8" -> 8 [] c = "9" -> 9

\* Index of the first character at or after i that is not white space.
RECURSIVE SkipSpace(_, _)
SkipSpace(s, i) ==
    IF i <= Len(s) /\ IsSpace(s[i]) THEN SkipSpace(s, i + 1) ELSE i

\* Accumulates the digits from index i on as a non-positive number
\* (so that INT_MIN is representable); over records that the number left
\* the range of int.  The running values are bound once per digit.
RECURSIVE ParseDigits(_, _, _, _, _)
ParseDigits(s, i, acc, any, over) ==
    IF i <= Len(s) /\ IsDigit(s[i])
    THEN LET d == DigitVal(s[i])
             cutoff == INT_MAX \div 10
             cutlim == (INT_MAX % 10) + 1
             Rest(a, o) ==
                 LET ovf == o \/ a < -cutoff \/ (a = -cutoff /\ d > cutlim)
                 IN  ParseDigits(s, i + 1, IF ovf THEN a ELSE a * 10 - d,
                                 TRUE, ovf)
         IN  CHOOSE r \in { Rest(a, o) : a \in {acc}, o \in {over} } : TRUE
    ELSE [any |-> any, over |-> over, neg |-> acc]

\* Variant of stoi that, like atoi, reports no error: 0 when there is
\* nothing to convert or the number is out of range.
stoi_like_atoi(s) ==
    LET i == SkipSpace(s, 1)
        signed == i <= Len(s) /\ s[i] \in {"+", "-"}
        minus == signed /\ s[i] = "-"
        Result(r) ==
            IF ~r.any THEN [ok |-> TRUE, val |-> 0]
            ELSE IF r.over \/ (~minus /\ r.neg = INT_MIN)
            THEN [ok |-> TRUE, val |-> 0]
            ELSE [ok |-> TRUE, val |-> IF minus THEN r.neg ELSE -r.neg]
    IN  CHOOSE v \in { Result(r) : r \in
              { ParseDigits(s, IF signed THEN i + 1 ELSE i, 0, FALSE, FALSE) } } :
            TRUE

\* Variant of stoi that also throws when characters follow the number.
stoi_whole_text(s) ==
    LET i == SkipSpace(s, 1)
        signed == i <= Len(s) /\ s[i] \in {"+", "-"}
        minus == signed /\ s[i] = "-"
        start == IF signed THEN i + 1 ELSE i
        Result(r) ==
            IF ~r.any \/ ~(\A k \in start..Len(s) : IsDigit(s[k]))
            THEN [ok |-> FALSE, val |-> 0]
            ELSE IF r.over \/ (~minus /\ r.neg = INT_MIN)
            THEN [ok |-> FALSE, val |-> 0]
            ELSE [ok |-> TRUE, val |-> IF minus THEN r.neg ELSE -r.neg]
    IN  CHOOSE v \in { Result(r) : r \in
              { ParseDigits(s, start, 0, FALSE, FALSE) } } :
            TRUE

\* std::stoi(str): ok = FALSE when it throws (invalid_argument when there is
\* no digit to convert, out_of_range when the number is not an int).
stoi(s) ==
    LET i == SkipSpace(s, 1)
        signed == i <= Len(s) /\ s[i] \in {"+", "-"}
        minus == signed /\ s[i] = "-"
        Result(r) ==
            IF ~r.any THEN [ok |-> FALSE, val |-> 0]
            ELSE IF r.over \/ (~minus /\ r.neg = INT_MIN)
            THEN [ok |-> FALSE, val |-> 0]
            ELSE [ok |-> TRUE, val |-> IF minus THEN r.neg ELSE -r.neg]
    IN  CHOOSE v \in { Result(r) : r \in
              { ParseDigits(s, IF signed THEN i + 1 ELSE i, 0, FALSE, FALSE) } } :
            TRUE

\* --------------------------------------------------------- JudgeInterface

\* void set_max_queries(int max)
set_max_queries(max) ==
    /\ max_queries' = max
    /\ query_count' = query_count

\* void output(const string& message)
output(message) ==
    out' = Append(out, message)

\* Variant of wrong_answer that writes the reason to cout instead of cerr.
wrong_answer_to_cout(message) ==
    /\ out' = Append(out, message)
    /\ err' = err
    /\ exit_status' = Append(exit_status, 1)
    /\ ended_by' = Append(ended_by, "wrong_answer")
    /\ pc' = "exited"

\* Variant of wrong_answer that reports the failure but exits with status 0.
wrong_answer_exit_success(message) ==
    /\ err' = Append(err, <<WrongAnswerPrefix, message>>)
    /\ out' = out
    /\ exit_status' = Append(exit_status, 0)
    /\ ended_by' = Append(ended_by, "wrong_answer")
    /\ pc' = "exited"

\* void wrong_answer(const string& message)
wrong_answer(message) ==
    /\ err' = Append(err, <<WrongAnswerPrefix, message>>)
    /\ out' = out
    /\ exit_status' = Append(exit_status, 1)
    /\ ended_by' = Append(ended_by, "wrong_answer")
    /\ pc' = "exited"

\* Variant of correct_answer that returns to the loop instead of exiting.
correct_answer_returns ==
    /\ exit_status' = exit_status
    /\ out' = out
    /\ err' = err
    /\ ended_by' = Append(ended_by, "correct_answer")
    /\ pc' = "input"

\* void correct_answer()
correct_answer ==
    /\ exit_status' = Append(exit_status, 0)
    /\ out' = out
    /\ err' = err
    /\ ended_by' = Append(ended_by, "correct_answer")
    /\ pc' = "exited"

\* getline(cin, input) on a fresh string: a line, or nothing at end of file.
getline ==
    \/ /\ ~eof
       /\ consumed < MaxLines
       /\ \E l \in Lines :
            /\ line' = l
            /\ received' = Append(received, l)
       /\ consumed' = consumed + 1
       /\ eof' = eof
    \/ /\ line' = << >>
       /\ received' = Append(received, << >>)
       /\ consumed' = consumed
       /\ eof' = TRUE

\* Variant of input without the limit check.
input_unchecked ==
    /\ input_calls' = input_calls + 1
    /\ query_count' = query_count + 1
    /\ getline
    /\ pc' = "stoi"
    /\ UNCHANGED << out, err, exit_status, ended_by >>

\* Variant of input whose limit check is off by one (> for >=).
input_off_by_one ==
    /\ input_calls' = input_calls + 1
    /\ IF query_count > max_queries
       THEN /\ wrong_answer(MsgQueryLimit)
            /\ UNCHANGED << query_count, line, consumed, eof, received >>
       ELSE /\ query_count' = query_count + 1
            /\ getline
            /\ pc' = "stoi"
            /\ UNCHANGED << out, err, exit_status, ended_by >>

\* Variant of input that reads the line before it checks the limit.
input_read_then_check ==
    /\ input_calls' = input_calls + 1
    /\ getline
    /\ IF query_count >= max_queries
       THEN /\ wrong_answer(MsgQueryLimit)
            /\ query_count' = query_count
       ELSE /\ query_count' = query_count + 1
            /\ pc' = "stoi"
            /\ UNCHANGED << out, err, exit_status, ended_by >>

\* Variant of input that counts the query before it checks the limit.
input_count_then_check ==
    /\ input_calls' = input_calls + 1
    /\ query_count' = query_count + 1
    /\ IF query_count + 1 >= max_queries
       THEN /\ wrong_answer(MsgQueryLimit)
            /\ UNCHANGED << line, consumed, eof, received >>
       ELSE /\ getline
            /\ pc' = "stoi"
            /\ UNCHANGED << out, err, exit_status, ended_by >>

\* string input()
input ==
    /\ input_calls' = input_calls + 1
    /\ IF query_count >= max_queries
       THEN /\ wrong_answer(MsgQueryLimit)
            /\ UNCHANGED << query_count, line, consumed, eof, received >>
       ELSE /\ query_count' = query_count + 1
            /\ getline
            /\ pc' = "stoi"
            /\ UNCHANGED << out, err, exit_status, ended_by >>

\* ------------------------------------------------------------------- main

Init ==
    /\ query_count = 0
    /\ max_queries = DefaultMaxQueries
    /\ out = << >>
    /\ err = << >>
    /\ exit_status = << >>
    /\ pc = "prompt"
    /\ line = << >>
    /\ guess = 0
    /\ consumed = 0
    /\ eof = FALSE
    /\ received = << >>
    /\ emitted = << >>
    /\ input_calls = 0
    /\ configured = FALSE
    /\ reconfigured = FALSE
    /\ ended_by = << >>

\* Variant of main_prompt that goes to the loop without the opening prompt.
main_prompt_silent ==
    /\ pc = "prompt"
    /\ pc' = "input"
    /\ UNCHANGED << query_count, max_queries, out, err, exit_status, line,
                    guess, consumed, eof, received, emitted, input_calls,
                    configured, reconfigured, ended_by >>

\* judge.output("...") before the loop
main_prompt ==
    /\ pc = "prompt"
    /\ output(MsgStart)
    /\ emitted' = Append(emitted, MsgStart)
    /\ pc' = "input"
    /\ UNCHANGED << query_count, max_queries, err, exit_status, line, guess,
                    consumed, eof, received, input_calls, configured,
                    reconfigured, ended_by >>

\* string input = judge.input();
main_input ==
    /\ pc = "input"
    /\ input
    /\ UNCHANGED << max_queries, guess, emitted, configured,
                    reconfigured >>

\* int guess = stoi(input);  a throw transfers control to the catch block
main_stoi ==
    /\ pc = "stoi"
    /\ IF stoi(line).ok
       THEN /\ guess' = stoi(line).val
            /\ pc' = "compare"
       ELSE /\ guess' = guess
            /\ pc' = "catch"
    /\ UNCHANGED << query_count, max_queries, out, err, exit_status, line,
                    consumed, eof, received, emitted, input_calls, configured,
                    reconfigured,
                    ended_by >>

\* Variant of Feedback with the two hints exchanged.
Feedback_swapped(g) ==
    IF g = n THEN MsgCorrect
    ELSE IF g < n THEN MsgSmaller
    ELSE MsgBigger

\* Message chosen by the if / else if / else on guess
Feedback(g) ==
    IF g = n THEN MsgCorrect
    ELSE IF g < n THEN MsgBigger
    ELSE MsgSmaller

\* Variant of main_compare that accepts without emitting the message.
main_compare_silent_accept ==
    /\ pc = "compare"
    /\ IF guess = n
       THEN /\ out' = out
            /\ emitted' = emitted
       ELSE /\ output(Feedback(guess))
            /\ emitted' = Append(emitted, Feedback(guess))
    /\ pc' = IF guess = n THEN "correct_answer" ELSE "input"
    /\ UNCHANGED << query_count, max_queries, err, exit_status, line, guess,
                    consumed, eof, received, input_calls, configured,
                    reconfigured, ended_by >>

\* Variant of main_compare for  if (guess = n) : the assignment makes the
\* first branch the one always taken.
main_compare_assigns ==
    /\ pc = "compare"
    /\ guess' = n
    /\ output(MsgCorrect)
    /\ emitted' = Append(emitted, MsgCorrect)
    /\ pc' = "correct_answer"
    /\ UNCHANGED << query_count, max_queries, err, exit_status, line,
                    consumed, eof, received, input_calls, configured,
                    reconfigured, ended_by >>

\* if (guess == n) ... else if (guess < n) ... else ...: the judge.output call
main_compare ==
    /\ pc = "compare"
    /\ output(Feedback(guess))
    /\ emitted' = Append(emitted, Feedback(guess))
    /\ pc' = IF guess = n THEN "correct_answer" ELSE "input"
    /\ UNCHANGED << query_count, max_queries, err, exit_status, line, guess,
                    consumed, eof, received, input_calls, configured,
                    reconfigured, ended_by >>

\* judge.correct_answer();
main_correct_answer ==
    /\ pc = "correct_answer"
    /\ correct_answer
    /\ UNCHANGED << query_count, max_queries, line, guess, consumed, eof,
                    received, emitted, input_calls, configured,
                    reconfigured >>

\* Variant of main_catch that swallows the exception and keeps looping.
main_catch_continues ==
    /\ pc = "catch"
    /\ pc' = "input"
    /\ UNCHANGED << query_count, max_queries, out, err, exit_status, line,
                    guess, consumed, eof, received, emitted, input_calls,
                    configured,
                    reconfigured, ended_by >>

\* catch (...) { judge.wrong_answer("...") }
main_catch ==
    /\ pc = "catch"
    /\ wrong_answer(MsgInvalid)
    /\ UNCHANGED << query_count, max_queries, line, guess, consumed, eof,
                    received, emitted, input_calls, configured,
                    reconfigured >>

\* A call judge.set_max_queries(max) placed anywhere in the session by the
\* problem author who fills in the template.
configure ==
    /\ pc # "exited"
    /\ \E max \in Limits : set_max_queries(max)
    /\ configured' = TRUE
    /\ reconfigured' = (reconfigured \/ input_calls > 0)
    /\ UNCHANGED << out, err, exit_status, pc, line, guess, consumed, eof,
                    received, emitted, input_calls, ended_by >>

Next ==
    \/ main_prompt
    \/ main_input
    \/ main_stoi
    \/ main_compare
    \/ main_correct_answer
    \/ main_catch
    \/ configure

Spec == Init /\ [][Next]_vars

\* The statements of main, which run one after the other to the exit; the
\* read behind main_input returns, with a line or with end of file.
MainStep ==
    \/ main_prompt
    \/ main_input
    \/ main_stoi
    \/ main_compare
    \/ main_correct_answer
    \/ main_catch

\* The program keeps running: a statement of main that can run does run.
FairSpec == Spec /\ WF_vars(MainStep)

\* The session state of the specification's state machine.
State ==
    IF pc # "exited" THEN "Active"
    ELSE IF ended_by[Len(ended_by)] = "correct_answer" THEN "Accepted"
    ELSE "Rejected"

\* The reject reason on the diagnostic stream, if any.
RejectedFor(reason) ==
    /\ pc = "exited"
    /\ ended_by = << "wrong_answer" >>
    /\ err = << <<WrongAnswerPrefix, reason>> >>

\* ------------------------------------------------------------------ claims

\* C1 (as stated, for limits > 0): queries_used equals the number of
\* successful receive() calls and, in every reachable state, does not exceed
\* query_limit, whatever configure() calls were made.
C1_Original ==
    /\ query_count = Len(received)
    /\ max_queries > 0 => query_count <= max_queries

\* C1 (amended): queries_used equals the number of successful receive()
\* calls, and every successful receive() leaves queries_used <= query_limit
\* for the limit in force at that call, whatever configure() calls were
\* made; a later configure() may set query_limit below queries_used.
C1_Amended ==
    /\ [](query_count = Len(received))
    /\ [][query_count' # query_count =>
            /\ query_count' = query_count + 1
            /\ max_queries' = max_queries
            /\ query_count' <= max_queries
            /\ Len(received') = Len(received) + 1]_vars

\* C1 witness: a third read accepted at the limit 3 set by configure().
C1_Witness ==
    /\ pc = "stoi"
    /\ configured
    /\ max_queries = 3
    /\ query_count = 3
    /\ Len(received) = 3

\* C2: with query_limit = N, the (N+1)-th call of receive() rejects the
\* session with the limit-exhaustion reason before any read: no line is
\* consumed, nothing is returned and queries_used stays N.
C2_LimitCall ==
    [][(input_calls' = input_calls + 1 /\ input_calls = max_queries) =>
          /\ query_count = max_queries
          /\ query_count' = query_count
          /\ consumed' = consumed
          /\ eof' = eof
          /\ received' = received
          /\ line' = line
          /\ out' = out
          /\ pc' = "exited"
          /\ State' = "Rejected"
          /\ err' = Append(err, <<WrongAnswerPrefix, MsgQueryLimit>>)
          /\ exit_status' = Append(exit_status, 1)]_vars

\* C2 witness: limit 2, two lines read, the third call rejected.
C2_Witness ==
    /\ RejectedFor(MsgQueryLimit)
    /\ max_queries = 2
    /\ input_calls = 3
    /\ query_count = 2
    /\ consumed = 2

\* C3: the verdict is produced exactly once and is terminal: the session is
\* over exactly when correct_answer or wrong_answer has been called, that
\* happened once, with one exit status, and no step changes anything
\* afterwards.
C3_Terminal ==
    /\ [](/\ Len(ended_by) <= 1
          /\ Len(exit_status) = Len(ended_by)
          /\ (pc = "exited") <=> (ended_by # << >>)
          /\ \A i \in 1..Len(ended_by) :
                ended_by[i] \in {"correct_answer", "wrong_answer"})
    /\ [][ended_by # << >> => UNCHANGED vars]_vars

\* C3 witness: a session accepted on its second line.
C3_Witness ==
    /\ pc = "exited"
    /\ ended_by = << "correct_answer" >>
    /\ Len(received) = 2

\* C4: correct_answer exits with status 0 and wrong_answer with a non-zero
\* status, so the exit status is 0 exactly when the session is Accepted.
C4_ExitStatus ==
    /\ Len(exit_status) = Len(ended_by)
    /\ \A i \in 1..Len(ended_by) :
          /\ ended_by[i] = "correct_answer" => exit_status[i] = 0
          /\ ended_by[i] = "wrong_answer" => exit_status[i] # 0
    /\ pc = "exited" => (exit_status = << 0 >> <=> State = "Accepted")

\* C4 witness: a rejected session, exit status 1.
C4_Witness ==
    /\ State = "Rejected"
    /\ exit_status = << 1 >>

\* Text that is an integer as a whole: optional white space, optional sign,
\* then one or more digits and nothing else.
IsIntegerText(s) ==
    LET i == SkipSpace(s, 1)
        j == IF i <= Len(s) /\ s[i] \in {"+", "-"} THEN i + 1 ELSE i
    IN  /\ j <= Len(s)
        /\ \A k \in j..Len(s) : IsDigit(s[k])

NotIntegerText(s) == ~IsIntegerText(s)

\* Text on which the parse step of the driving loop fails.
StoiThrows(s) == ~stoi(s).ok

\* Every received line that is Bad is the last one read, gets no feedback
\* line, and ends the session, through the catch block, as Rejected with the
\* invalid-input reason and a non-zero exit status.
MalformedRejected(Bad(_)) ==
    \A k \in 1..Len(received) :
        Bad(received[k]) =>
            /\ k = Len(received)
            /\ pc \in {"stoi", "catch", "exited"}
            /\ Len(out) = k
            /\ \A i \in 1..Len(out) : out[i] # MsgCorrect
            /\ pc # "exited" => exit_status = << >> /\ err = << >>
            /\ pc = "exited" =>
                  /\ RejectedFor(MsgInvalid)
                  /\ State = "Rejected"
                  /\ Len(exit_status) = 1
                  /\ exit_status[1] # 0

\* C5 (as stated): every received line that is not an integer is turned by
\* the driving loop into a reject with the invalid-input reason and a
\* non-zero exit status, and never leads to Accepted or to a feedback line.
C5_Original == MalformedRejected(NotIntegerText)

\* C5 (amended): every received line on which the parse fails (std::stoi
\* finds no leading integer in the range of int) is turned by the driving
\* loop into a reject with the invalid-input reason and a non-zero exit
\* status, and never leads to Accepted or to a feedback line.
C5_Amended == MalformedRejected(StoiThrows)

\* C5 witness: the second line is "abc" and the session was rejected for it.
C5_Witness ==
    /\ RejectedFor(MsgInvalid)
    /\ Len(received) = 2
    /\ received[2] = <<"a", "b", "c">>
    /\ Len(out) = 2

\* C6: the output stream holds exactly the messages main passed to output(),
\* none of them a reject reason; the reasons go to the diagnostic stream
\* only, and only when the session is rejected.
C6_OutputOnlyEmitted ==
    /\ out = emitted
    /\ \A i \in 1..Len(out) :
          out[i] \in {MsgStart, MsgCorrect, MsgBigger, MsgSmaller}
    /\ Len(err) <= 1
    /\ \A i \in 1..Len(err) :
          err[i] \in { <<WrongAnswerPrefix, MsgQueryLimit>>,
                       <<WrongAnswerPrefix, MsgInvalid>> }
    /\ (State = "Rejected") <=> (err # << >>)

\* C6 witness: rejected for the query limit after two feedback lines.
C6_Witness ==
    /\ RejectedFor(MsgQueryLimit)
    /\ Len(out) = 3
    /\ out[3] = MsgBigger

\* Text that the driving loop reads as the target value.
IsTarget(s) == stoi(s).ok /\ stoi(s).val = n

\* C7: a received line equal to the target is the last one read; once it
\* has been compared the "correct" message is the last line of the output
\* stream, written before correct_answer is called; the only step after that
\* is correct_answer, which leaves the session Accepted with exit status 0
\* and nothing emitted, read or reported after the message.
C7_TargetAccepted ==
    /\ [](\A k \in 1..Len(received) :
            IsTarget(received[k]) =>
                /\ k = Len(received)
                /\ pc \in {"stoi", "compare", "correct_answer", "exited"}
                /\ err = << >>
                /\ pc \in {"stoi", "compare"} =>
                      Len(out) = k /\ exit_status = << >>
                /\ pc \in {"correct_answer", "exited"} =>
                      Len(out) = k + 1 /\ out[k + 1] = MsgCorrect
                /\ pc = "correct_answer" => exit_status = << >>
                /\ pc = "exited" =>
                      exit_status = << 0 >> /\ State = "Accepted")
    /\ [][(pc = "compare" /\ guess = n /\ pc' # pc) =>
            /\ out' = Append(out, MsgCorrect)
            /\ pc' = "correct_answer"
            /\ exit_status' = << >>]_vars
    /\ [][(pc = "correct_answer" /\ pc' # pc) =>
            /\ pc' = "exited"
            /\ ended_by' = << "correct_answer" >>
            /\ out' = out
            /\ consumed' = consumed
            /\ input_calls' = input_calls]_vars

\* C7 witness: the line "42" was read second and the session is Accepted.
C7_Witness ==
    /\ State = "Accepted"
    /\ Len(received) = 2
    /\ received[2] = <<"4", "2">>
    /\ out[3] = MsgCorrect
    /\ exit_status = << 0 >>

\* C8: every received line that parses to an integer g other than the target
\* gets exactly one feedback line, "smaller" when g > target and "bigger"
\* when g < target, and after it the session is Active with queries_used
\* equal to the number of lines read.
C8_Feedback ==
    /\ [](\A k \in 1..Len(received) :
            LET r == stoi(received[k])
            IN  (r.ok /\ r.val # n) =>
                  IF k = Len(received) /\ pc \in {"stoi", "compare"}
                  THEN Len(out) = k
                  ELSE /\ Len(out) >= k + 1
                       /\ out[k + 1] = IF r.val > n THEN MsgSmaller
                                       ELSE MsgBigger)
    /\ [](Len(out) <= Len(received) + 1)
    /\ [][(pc = "compare" /\ guess # n /\ pc' # pc) =>
            /\ Len(out') = Len(out) + 1
            /\ pc' = "input"
            /\ State' = "Active"
            /\ exit_status' = << >>
            /\ query_count' = consumed'
            /\ query_count' = Len(received')]_vars

\* C8 witness: Scenario A, the lines 50, 70, 60 under the default limit.
C8_Witness ==
    /\ received = << <<"5", "0">>, <<"7", "0">>, <<"6", "0">> >>
    /\ out = << MsgStart, MsgSmaller, MsgSmaller, MsgSmaller >>
    /\ pc = "input"
    /\ State = "Active"
    /\ max_queries = DefaultMaxQueries
    /\ query_count = 3

\* C9 (as stated): in every reachable state queries_used >= 0 and
\* query_limit > 0, and query_limit is 100 unless configure() was called.
C9_Original ==
    /\ query_count >= 0
    /\ max_queries > 0
    /\ ~configured => max_queries = DefaultMaxQueries

\* C10 (as stated): in every reachable state the number of input lines
\* consumed equals the number of receive() calls made and equals
\* queries_used.
C10_Original ==
    /\ consumed = input_calls
    /\ consumed = query_count

\* C10 (amended): a receive() call consumes at most one line, and exactly
\* one when it passes the limit check and the stream has not ended: the
\* lines consumed are queries_used, less one once a read has hit the end of
\* the stream, and the receive() calls made are queries_used, plus one once
\* a call has been rejected by the limit check.
C10_Amended ==
    /\ [](/\ consumed = query_count - (IF eof THEN 1 ELSE 0)
          /\ input_calls =
                query_count + (IF RejectedFor(MsgQueryLimit) THEN 1 ELSE 0))
    /\ [][consumed' # consumed =>
            /\ consumed' = consumed + 1
            /\ input_calls' = input_calls + 1
            /\ query_count' = query_count + 1
            /\ Len(received') = Len(received) + 1]_vars

\* C10 witness: two lines read, then a third call that hits the end of the
\* stream.
C10_Witness ==
    /\ eof
    /\ consumed = 2
    /\ query_count = 3
    /\ input_calls = 3

\* C11: a receive() that finds the input stream ended while queries_used <
\* query_limit returns at once with empty text and still counts as a query;
\* no further read is made and no feedback is written for it, and the
\* driving loop then ends the session as Rejected with the invalid-input
\* reason and a non-zero exit status.
C11_EndOfInput ==
    /\ [][(input_calls' # input_calls /\ query_count < max_queries /\ eof') =>
            /\ query_count' = query_count + 1
            /\ line' = << >>
            /\ received' = Append(received, << >>)
            /\ consumed' = consumed
            /\ pc' = "stoi"]_vars
    /\ [](eof =>
            /\ Len(received) > 0
            /\ received[Len(received)] = << >>
            /\ input_calls = Len(received)
            /\ query_count = consumed + 1
            /\ Len(out) = Len(received)
            /\ pc \in {"stoi", "catch", "exited"}
            /\ pc = "exited" =>
                  /\ RejectedFor(MsgInvalid)
                  /\ Len(exit_status) = 1
                  /\ exit_status[1] # 0)
    /\ (eof ~> RejectedFor(MsgInvalid))

\* C11 witness: one line read, the stream ended at the second read, and the
\* session was rejected as invalid input.
C11_Witness ==
    /\ eof
    /\ RejectedFor(MsgInvalid)
    /\ consumed = 1
    /\ query_count = 2
    /\ received[2] = << >>

\* C12: provided every read returns, the driving loop reaches a verdict:
\* the session does not stay Active for ever; and under a limit N > 0 that is
\* not changed once reading has begun, it does so after at most N successful
\* reads and at most N + 1 calls of receive().
C12_Termination ==
    /\ <>(pc = "exited" /\ State \in {"Accepted", "Rejected"})
    /\ []((~reconfigured /\ max_queries > 0) =>
            /\ query_count <= max_queries
            /\ input_calls <= max_queries + 1)

\* C12 witness: under the limit 2, set before the first read, the session
\* ended at the third call of receive(), after two reads.
C12_Witness ==
    /\ pc = "exited"
    /\ configured
    /\ ~reconfigured
    /\ max_queries = 2
    /\ query_count = 2
    /\ input_calls = 3

\* C13: the session is Accepted, with exit status 0, only if the last line
\* received parsed to the target and no earlier line was malformed or parsed
\* to the target; and the read that returned a target line was accepted with
\* queries_used at most the query_limit in force.
C13_NoFalseAccept ==
    /\ [](State = "Accepted" =>
            /\ exit_status = << 0 >>
            /\ Len(received) > 0
            /\ query_count = Len(received)
            /\ IsTarget(received[Len(received)])
            /\ \A k \in 1..(Len(received) - 1) :
                  stoi(received[k]).ok /\ stoi(received[k]).val # n)
    /\ [][(input_calls' # input_calls /\ pc' = "stoi" /\ IsTarget(line')) =>
            /\ query_count' = query_count + 1
            /\ query_count' <= max_queries
            /\ max_queries' = max_queries]_vars

\* C13 witness: Accepted on the third line, read at the limit 3.
C13_Witness ==
    /\ State = "Accepted"
    /\ Len(received) = 3
    /\ query_count = 3
    /\ max_queries = 3

\* C14: the limit is tested at the start of a receive() call and nowhere
\* else: a call made with queries_used < query_limit reads, a call made with
\* queries_used >= query_limit rejects, the limit reason appears only in
\* such a call, and a session whose counter has reached the limit is not
\* rejected for it while the line just read is handled; so a target read as
\* the query_limit-th line is Accepted.
C14_BudgetBoundary ==
    /\ [][input_calls' # input_calls =>
            IF query_count >= max_queries
            THEN /\ RejectedFor(MsgQueryLimit)'
                 /\ query_count' = query_count
            ELSE /\ pc' = "stoi"
                 /\ query_count' = query_count + 1
                 /\ err' = << >>]_vars
    /\ [][(err' # err /\ err' = << <<WrongAnswerPrefix, MsgQueryLimit>> >>) =>
            /\ pc = "input"
            /\ input_calls' = input_calls + 1]_vars
    /\ [](pc \in {"stoi", "compare", "correct_answer", "catch"} =>
            err = << >> /\ exit_status = << >>)
    /\ []((/\ pc = "exited"
           /\ Len(received) > 0
           /\ IsTarget(received[Len(received)])) => State = "Accepted")

\* C14 witness: the limit is 2, set before the first read, the second line
\* is the target, and the session is Accepted with queries_used = 2.
C14_Witness ==
    /\ State = "Accepted"
    /\ ~reconfigured
    /\ max_queries = 2
    /\ query_count = 2
    /\ Len(received) = 2
    /\ received[2] = <<"4", "2">>

\* C15: the opening prompt is written before the first read and the feedback
\* for a read before the next one: when the k-th call of receive() is made
\* exactly k lines have been written, the first of them the prompt and, for
\* k > 1, the last of them a feedback line, and the call itself writes
\* nothing.
C15_TurnAlternation ==
    /\ [](pc = "input" => Len(out) = input_calls + 1)
    /\ [](pc \in {"stoi", "compare", "catch"} => Len(out) = input_calls)
    /\ [][input_calls' # input_calls =>
            /\ input_calls' = input_calls + 1
            /\ Len(out) = input_calls + 1
            /\ out[1] = MsgStart
            /\ input_calls > 0 => out[Len(out)] \in {MsgBigger, MsgSmaller}
            /\ out' = out]_vars

\* C15 witness: about to make the third read, with three lines written.
C15_Witness ==
    /\ pc = "input"
    /\ input_calls = 2
    /\ Len(out) = 3
    /\ out[1] = MsgStart

\* The leading integer of a text, described without reference to the way
\* it is parsed: after optional white space and an optional sign, the
\* longest run of digits; it is an int when, leading zeros apart, it has
\* fewer than 10 digits, or 10 digits that do not exceed 2147483647
\* (2147483648 after a minus sign).
RECURSIVE DigitRunEnd(_, _)
DigitRunEnd(s, j) ==
    IF j <= Len(s) /\ IsDigit(s[j]) THEN DigitRunEnd(s, j + 1) ELSE j

RECURSIVE StripZeros(_)
StripZeros(ds) ==
    IF Len(ds) > 1 /\ ds[1] = "0" THEN StripZeros(Tail(ds)) ELSE ds

\* ds <= es for digit sequences of the same length
RECURSIVE DigitsLeq(_, _)
DigitsLeq(ds, es) ==
    IF Len(ds) = 0 THEN TRUE
    ELSE IF DigitVal(ds[1]) # DigitVal(es[1])
    THEN DigitVal(ds[1]) < DigitVal(es[1])
    ELSE DigitsLeq(Tail(ds), Tail(es))

\* minus the number written by ds
RECURSIVE NegValue(_)
NegValue(ds) ==
    IF Len(ds) = 0 THEN 0
    ELSE NegValue(SubSeq(ds, 1, Len(ds) - 1)) * 10 - DigitVal(ds[Len(ds)])

LeadingInteger(s) ==
    LET blanks == { k \in 1..Len(s) : \A m \in 1..k : IsSpace(s[m]) }
        i == Cardinality(blanks) + 1
        signed == i <= Len(s) /\ s[i] \in {"+", "-"}
        minus == signed /\ s[i] = "-"
        j == IF signed THEN i + 1 ELSE i
        e == DigitRunEnd(s, j)
        ds == StripZeros(SubSeq(s, j, e - 1))
        top == IF minus
               THEN <<"2", "1", "4", "7", "4", "8", "3", "6", "4", "8">>
               ELSE <<"2", "1", "4", "7", "4", "8", "3", "6", "4", "7">>
        inrange == Len(ds) < 10 \/ (Len(ds) = 10 /\ DigitsLeq(ds, top))
    IN  IF e > j /\ inrange
        THEN [has |-> TRUE,
              val |-> IF minus THEN NegValue(ds) ELSE -NegValue(ds)]
        ELSE [has |-> FALSE, val |-> 0]

\* C16: a received line is rejected as invalid input exactly when it has no
\* leading integer in the range of int; a line that has one, whatever
\* follows it, is treated as that integer: it is the value compared, it gets
\* that value's message, and it is not rejected as invalid.
C16_ParseClassification ==
    \A k \in 1..Len(received) :
        LET p == LeadingInteger(received[k])
            islast == k = Len(received)
            invalid == islast /\ (pc = "catch" \/ RejectedFor(MsgInvalid))
        IN  (~islast \/ pc # "stoi") =>
              IF p.has
              THEN /\ ~invalid
                   /\ (islast /\ pc = "compare") => guess = p.val
                   /\ ~(islast /\ pc = "compare") =>
                         /\ Len(out) >= k + 1
                         /\ out[k + 1] = IF p.val = n THEN MsgCorrect
                                         ELSE IF p.val < n THEN MsgBigger
                                         ELSE MsgSmaller
              ELSE invalid

\* C16 witness: the line "42x" was read and the session is Accepted.
C16_Witness ==
    /\ State = "Accepted"
    /\ received[Len(received)] = <<"4", "2", "x">>

====
